---- MODULE Spec2Model ----
(***************************************************************************)
(* A model of the Probo GitLab handler: the process-wide status update     *)
(* queue (lib/GitLabHandler.js, buildStatusUpdateHandler, and lib/GitLab.js*)
(* postStatus) and the webhook intake (mergeRequestHandler, pushHandler,   *)
(* processWebhookEvent, processBuild).                                     *)
(*                                                                         *)
(* JavaScript values that can take several shapes are tagged records:      *)
(* an absent value (undefined) is the string Undefined where the value is  *)
(* a string, and a flag beside the value elsewhere.                        *)
(***************************************************************************)
EXTENDS Integers, Sequences, FiniteSets, TLC

VARIABLES
  reqs,                 \* status update requests received, in arrival order
  qTasks,               \* statusUpdateQueue: the tasks waiting, head first
  numRunning,           \* statusUpdateQueue: the workers running
  processingScheduled,  \* statusUpdateQueue: a deferred process() is pending
  calls,                \* the provider status calls issued, in order
  pending,              \* the tasks whose provider call has not settled
  startLog,             \* the tasks in the order the queue started them
  cbLog,                \* the callers' completion callbacks, in firing order
  events,               \* the webhook events received, in arrival order
  crashed,              \* the process died of an uncaught exception
  submissions,          \* the calls of submitBuild, in order
  hashBuilds            \* the requests to POST /builds/hash, in order

vars == <<reqs, qTasks, numRunning, processingScheduled, calls, pending,
          startLog, cbLog, events, crashed, submissions, hashBuilds>>

queueVars == <<reqs, qTasks, numRunning, processingScheduled, calls, pending,
               startLog, cbLog>>

----------------------------------------------------------------------------
(* Bounds of the model.                                                    *)

MaxUpdates == 2
MaxInfoUpdates == 2
MaxEvents == 2
MaxConfigEvents == 2
MaxSubmissions == 1
MaxContextUpdates == 2
MaxHashBuilds == 2
MaxDescLen == 200

----------------------------------------------------------------------------
(* Values.                                                                 *)

Undefined == "undefined"

Min(a, b) == IF a < b THEN a ELSE b
Max(a, b) == IF a > b THEN a ELSE b

\* substring with the end index taken as the last character kept.
SubstringInclusive(s, start, end) ==
  SubSeq(s, Min(Max(start, 0), Len(s)) + 1, Min(Max(end, 0) + 1, Len(s)))

\* String.prototype.substring(start, end) on a sequence of characters:
\* both indexes are clamped to 0..length and swapped when start > end.
Substring(s, start, end) ==
  LET a == Min(Max(start, 0), Len(s))
      b == Min(Max(end, 0), Len(s))
      lo == Min(a, b)
      hi == Max(a, b)
  IN SubSeq(s, lo + 1, hi)

\* String.prototype.indexOf(pat): the first 0-based place where pat occurs
\* in s, or -1.
IndexOf(s, pat) ==
  LET hits == {i \in 0..(Len(s) - Len(pat)) : SubSeq(s, i + 1, i + Len(pat)) = pat}
  IN IF hits = {} THEN -1 ELSE CHOOSE i \in hits : \A j \in hits : i <= j

\* String.prototype.includes(pat).
Includes(s, pat) == IndexOf(s, pat) # -1

\* The GitLabHandler instances of the process (test: "start another glh").
Handlers == {"glh1", "glh2"}

\* The projects the coordinator knows; each carries its provider record.
ProjectIds == {"p1", "p2"}

Project(p) ==
  [tag |-> "project", id |-> p, provider_id |-> p, owner |-> "proboci",
   repo |-> p, slug |-> p, hasProvider |-> TRUE, organizationId |-> "org",
   service_auth |-> [token |-> "tok", refreshToken |-> "ref"]]

Str(s) == [tag |-> "string", val |-> s]

----------------------------------------------------------------------------
(* The provider's answers to a status post.                                *)

\* A provider error description, as the words of its text.  The provider
\* turns the state posted into an event on the commit's status and refuses
\* an event that is no legal transition from the current status with
\* "Cannot transition status via :<event> from :<current> (Reason(s): ...)".
TransitionMsg(event, current) ==
  <<"Cannot transition status via", event, "from", current, "(Reason(s))">>

\* The two phrasings postStatus looks for.
RunFromRunning == <<"Cannot transition status via", ":run", "from", ":running">>
EnqueueFromRunning == <<"Cannot transition status via", ":enqueue", "from", ":running">>

\* The provider's event for a posted state, and the statuses a commit may
\* be in when the post arrives.
EventOf(state) ==
  CASE state = "pending" -> ":enqueue"
    [] state = "running" -> ":run"
    [] state = "success" -> ":success"
    [] state = "failed" -> ":drop"
    [] OTHER -> ":none"

CurrentStatuses == {":pending", ":running", ":success"}

NoError == [kind |-> "none", hasDescription |-> FALSE, description |-> <<>>]
Resolved == [kind |-> "ok", hasDescription |-> FALSE, description |-> <<>>]

Rejection(description) ==
  [kind |-> "err", hasDescription |-> TRUE, description |-> description]

Unauthorized == Rejection(<<"401 Unauthorized">>)

\* A rejection carries a description only when the provider answered with a
\* body that has one; a transport failure carries none.
NoDescription == [kind |-> "err", hasDescription |-> FALSE, description |-> <<>>]

\* The rejections a post of a state can meet; only the first when the
\* specification leaves the provider's errors aside.
Rejections(state, all) ==
  IF ~all THEN {Unauthorized}
  ELSE {Unauthorized, NoDescription}
       \cup (IF EventOf(state) = ":none" THEN {}
             ELSE {Rejection(TransitionMsg(EventOf(state), c)) : c \in CurrentStatuses})

----------------------------------------------------------------------------
(* buildStatusUpdateHandler: the status info of an update.                 *)

DescriptionLimit == 140

UpdateStates == {"running", "pending", "success", "error", "failure", "bogus"}

\* A state map that takes an unknown state for 'pending'.
StateMapDefaultsPending(s) ==
  CASE s = "running" -> "running"
    [] s = "pending" -> "pending"
    [] s = "success" -> "success"
    [] s = "error" -> "failed"
    [] s = "failure" -> "failed"
    [] OTHER -> "pending"

\* A state map that passes 'error' through unmapped.
StateMapKeepsError(s) ==
  CASE s = "running" -> "running"
    [] s = "pending" -> "pending"
    [] s = "success" -> "success"
    [] s = "error" -> "error"
    [] s = "failure" -> "failed"
    [] OTHER -> Undefined

\* stateMap[update.state]
StateMap(s) ==
  CASE s = "running" -> "running"
    [] s = "pending" -> "pending"
    [] s = "success" -> "success"
    [] s = "error" -> "failed"
    [] s = "failure" -> "failed"
    [] OTHER -> Undefined

\* A description of n characters; character i is the number base + i.
Description(n, base) == [i \in 1..n |-> base + i]

StatusInfo(update) ==
  [state |-> StateMap(update.state),
   description |-> Substring(update.description, 0, DescriptionLimit),
   context |-> update.context,
   target_url |-> update.target_url,
   user |-> Undefined, repo |-> Undefined, sha |-> Undefined]

\* A controller that leaves the context of the body in place.
WithUrlContextIgnored(update, urlContext) == update

\* buildStatusController: the context of the URL, when there is one,
\* replaces the context of the body.
WithUrlContext(update, urlContext) ==
  IF urlContext # Undefined THEN [update EXCEPT !.context = urlContext] ELSE update

----------------------------------------------------------------------------
(* statusUpdateQueue = async.queue(worker, 1).                             *)

\* A queue of two workers.
ConcurrencyTwo == 1 + 1

Concurrency == 1

\* A push that puts the task at the head of the waiting tasks.
QueuePushFront(q, t) == <<t>> \o q

\* A push that enqueues the task twice.
QueuePushTwice(q, t) == Append(Append(q, t), t)

\* q.push(task): the task joins the tail of the waiting tasks.
QueuePush(q, t) == Append(q, t)

\* GitLab.getApi(project): reads project.provider.baseUrl, which throws a
\* TypeError when the argument has no provider record.
GetApiThrows(project) == ~(project.tag = "project" /\ project.hasProvider)

\* GitLab.postStatus up to the provider call: the status info gets the
\* project's owner and repo and the sha, and the call is issued.
PostedInfo(r) ==
  [r.statusInfo EXCEPT !.user = r.build.project.owner,
                       !.repo = r.build.project.repo,
                       !.sha = r.build.ref]

StatusCall(t, r) ==
  [task |-> t, provider_id |-> r.build.project.provider_id, sha |-> r.build.ref,
   state |-> r.statusInfo.state, info |-> PostedInfo(r)]

\* q.process(): while a worker is free and a task waits, the head task is
\* taken and the worker runs it: fn(cb) is postStatus bound to the task's
\* project, sha and status info.
Process(rq, q, n, cl, pd, sl) ==
  LET k == Min(Len(q), Max(Concurrency - n, 0))
      started == {q[j] : j \in 1..k}
  IN [reqs |-> [i \in DOMAIN rq |->
                  IF i \in started
                  THEN [rq[i] EXCEPT !.phase = "running", !.statusInfo = PostedInfo(rq[i])]
                  ELSE rq[i]],
      qTasks |-> SubSeq(q, k + 1, Len(q)),
      numRunning |-> n + k,
      calls |-> cl \o [j \in 1..k |-> StatusCall(q[j], rq[q[j]])],
      pending |-> pd \cup started,
      startLog |-> sl \o SubSeq(q, 1, k)]

\* A catch handler that knows the ':run from :running' phrasing only.
IsTransitionConflictRunOnly(description) == Includes(description, RunFromRunning)

\* postStatus's catch handler: the two phrasings that are taken for a
\* repeated state.
IsTransitionConflict(description) ==
  \/ Includes(description, RunFromRunning)
  \/ Includes(description, EnqueueFromRunning)

\* What postStatus hands to its callback for a settled provider call:
\* "threw" when the catch handler itself throws (err.description.includes on
\* an absent description), so that the callback is never called.
PostStatusResult(outcome) ==
  IF outcome.kind = "ok" THEN NoError
  ELSE IF ~outcome.hasDescription THEN [NoError EXCEPT !.kind = "threw"]
  ELSE IF IsTransitionConflict(outcome.description) THEN NoError
  ELSE outcome

----------------------------------------------------------------------------
(* The status update endpoints.                                            *)

Build(p, ref) == [id |-> ref, project |-> Project(p), ref |-> ref]

Builds == {Build("p1", "c1"), Build("p2", "c2")}

Update(state, description, context) ==
  [state |-> state, description |-> description, context |-> context,
   target_url |-> "http://x"]

\* The updates of the queue's specification.
QueueUpdates ==
  { Update("running", Description(2, 0), "ci/env"),
    Update("pending", Description(3, 0), "ci/tests") }

\* The updates of the status info's specification: every state, and
\* descriptions around the limit.
DescLengths ==
  {0, 1, DescriptionLimit - 1, DescriptionLimit, DescriptionLimit + 1, MaxDescLen}

InfoUpdates ==
  {Update(s, Description(2, 0), "ci/env") : s \in UpdateStates}
  \cup {Update("success", Description(n, 0), "ci/env") : n \in DescLengths}
  \cup {Update("error", Description(MaxDescLen, 7), "ci/tests"),
        Update("bogus", Description(DescriptionLimit + 1, 0), "ci/tests")}

\* The updates of the endpoints' specification and the contexts of their
\* URLs; none for POST /update.
ContextUpdates ==
  { Update("success", Description(2, 0), "ci/env"),
    Update("error", Description(3, 0), "ci/tests") }

UrlContexts == {Undefined, "ci/url", "ci/env"}

NoResponse == [sent |-> FALSE, code |-> 0, error |-> NoError]

\* POST /update and POST /builds/:bid/status/:context: buildStatusController
\* and buildStatusUpdateHandler, up to statusUpdateQueue.push, which defers
\* the queue's process() to the next turn of the event loop.
ReceiveStatusUpdate(max, handlers, builds, updates, contexts) ==
  /\ ~crashed
  /\ Len(reqs) < max
  /\ \E h \in handlers, b \in builds, u \in updates, c \in contexts :
       LET update == WithUrlContext(u, c)
           r == [handler |-> h, input |-> u, urlContext |-> c, update |-> update,
                 build |-> b, statusInfo |-> StatusInfo(update),
                 phase |-> "queued", outcome |-> NoError, response |-> NoResponse]
       IN /\ reqs' = Append(reqs, r)
          /\ qTasks' = QueuePush(qTasks, Len(reqs) + 1)
  /\ processingScheduled' = TRUE
  /\ UNCHANGED <<numRunning, calls, pending, startLog, cbLog, events, crashed, submissions, hashBuilds>>

\* The deferred process() of the queue runs.
QueueProcess ==
  /\ ~crashed
  /\ processingScheduled
  /\ LET p == Process(reqs, qTasks, numRunning, calls, pending, startLog)
     IN /\ reqs' = p.reqs
        /\ qTasks' = p.qTasks
        /\ numRunning' = p.numRunning
        /\ calls' = p.calls
        /\ pending' = p.pending
        /\ startLog' = p.startLog
  /\ processingScheduled' = FALSE
  /\ UNCHANGED <<cbLog, events, crashed, submissions, hashBuilds>>

\* The worker's callback for task t with postStatus's result res: the
\* worker is released, the pushed callback calls the caller's callback with
\* (error, statusInfo) or (null, statusInfo), buildStatusController answers
\* 500 {error} or the status info, and the queue processes its next task.
TaskCallback(t, o, res) ==
  LET rq == [reqs EXCEPT ![t].phase = "completed",
                         ![t].outcome = o,
                         ![t].response =
                            [sent |-> TRUE,
                             code |-> IF res.kind = "err" THEN 500 ELSE 200,
                             error |-> res]]
      p == Process(rq, qTasks, numRunning - 1, calls, pending \ {t}, startLog)
  IN /\ cbLog' = Append(cbLog, [task |-> t, err |-> res, status |-> reqs[t].statusInfo])
     /\ reqs' = p.reqs
     /\ qTasks' = p.qTasks
     /\ numRunning' = p.numRunning
     /\ calls' = p.calls
     /\ pending' = p.pending
     /\ startLog' = p.startLog
     /\ UNCHANGED <<processingScheduled, events, crashed, submissions, hashBuilds>>

\* The catch handler of postStatus throws: the rejection is unhandled, the
\* worker's callback is never called and the worker stays taken.
TaskStuck(t, o) ==
  /\ reqs' = [reqs EXCEPT ![t].phase = "stuck", ![t].outcome = o]
  /\ pending' = pending \ {t}
  /\ UNCHANGED <<qTasks, numRunning, processingScheduled, calls, startLog, cbLog,
                 events, crashed, submissions, hashBuilds>>

\* The provider answers the status call of task t: postStatus's then/catch.
ProviderResolves ==
  /\ ~crashed
  /\ \E t \in pending : TaskCallback(t, Resolved, PostStatusResult(Resolved))

ProviderRejects(all) ==
  /\ ~crashed
  /\ \E t \in pending :
     \E o \in Rejections(reqs[t].statusInfo.state, all) :
       LET res == PostStatusResult(o)
       IN IF res.kind = "threw" THEN TaskStuck(t, o) ELSE TaskCallback(t, o, res)

----------------------------------------------------------------------------
(* The webhook events.                                                     *)

\* Commit messages, as sequences of characters.
BuildMarker == <<"[", "b", "u", "i", "l", "d", "]">>

Messages ==
  { <<"f", "i", "x">>,
    BuildMarker,
    <<"f", "i", "x", " ">> \o BuildMarker \o <<"!">>,
    <<"[", "B", "u", "i", "l", "d", "]">>,
    <<"[", "b", "u", "i", "l", "d">>,
    <<"[", "b", "u", "i", "l", "d", " ", "]">> }

\* The commit lists of a push, oldest commit first; a push may carry none.
CommitLists ==
  {<<>>} \cup {<<m>> : m \in Messages}
         \cup {<<BuildMarker, <<"f", "i", "x">>>>, <<<<"f", "i", "x">>, BuildMarker>>}

\* Refs, as sequences of path parts.
HeadsPrefix == <<"refs/heads/">>
Refs == {<<"refs/tags/", "v1">>, <<"x/">> \o HeadsPrefix \o <<"y">>}

MergeRequestStates == {"opened", "closed", "merged", "locked"}

MergeRequestPayload(p, state) ==
  [kind |-> "merge_request", project |-> p, state |-> state, ref |-> <<>>,
   commits |-> <<>>, sha |-> "c1", source_branch |-> <<"feature">>, iid |-> 1]

PushPayload(p, ref, commits) ==
  [kind |-> "push", project |-> p, state |-> Undefined, ref |-> ref,
   commits |-> commits, sha |-> "c2", source_branch |-> <<>>, iid |-> 0]

\* A request the webhook handler does not accept (bad token, no event).
RejectedPayload ==
  [kind |-> "rejected", project |-> "p1", state |-> Undefined, ref |-> <<>>,
   commits |-> <<>>, sha |-> "c0", source_branch |-> <<>>, iid |-> 0]

Payloads ==
  {MergeRequestPayload(p, st) : p \in ProjectIds, st \in MergeRequestStates}
  \cup {PushPayload(p, HeadsPrefix \o <<"master">>, c) : p \in ProjectIds, c \in CommitLists}
  \cup {PushPayload("p1", r, <<BuildMarker>>) : r \in Refs}

\* String.prototype.replace(pat, rep) with a string pattern: the first
\* occurrence only.
Replace(s, pat, rep) ==
  LET i == IndexOf(s, pat)
  IN IF i = -1 THEN s
     ELSE SubSeq(s, 1, i) \o rep \o SubSeq(s, i + Len(pat) + 1, Len(s))

NoRequest ==
  [type |-> Undefined, slug |-> Undefined, sha |-> Undefined, branch |-> <<>>,
   number |-> 0, message |-> <<>>]

\* A filter that ignores only a 'closed' merge request.
MergeRequestIgnoredClosedOnly(payload) == payload.state = "closed"

\* mergeRequestHandler: only an 'opened' merge request is processed.
MergeRequestIgnored(payload) == payload.state # "opened"

\* mergeRequestHandler: the request of an 'opened' merge request.
MergeRequestRequest(payload) ==
  [type |-> "pull_request", slug |-> payload.project, sha |-> payload.sha,
   branch |-> payload.source_branch, number |-> payload.iid, message |-> <<>>]

\* pushHandler: the index of the last commit, 0 when there is none.
LastMessage(payload) ==
  IF Len(payload.commits) - 1 >= 0 THEN Len(payload.commits) - 1 ELSE 0

\* pushHandler: with no commit at index lastMessage, the assignment
\* payload.commits[lastMessage].message = ... throws a TypeError.
PushHandlerThrows(payload) == LastMessage(payload) + 1 > Len(payload.commits)

\* A request that takes the message of the first commit of the push.
PushRequestFirstMessage(payload) ==
  [type |-> "branch", slug |-> payload.project, sha |-> payload.sha,
   branch |-> Replace(payload.ref, HeadsPrefix, <<>>), number |-> 0,
   message |-> payload.commits[1]]

\* pushHandler: the request of a push.
PushRequest(payload) ==
  [type |-> "branch", slug |-> payload.project, sha |-> payload.sha,
   branch |-> Replace(payload.ref, HeadsPrefix, <<>>), number |-> 0,
   message |-> payload.commits[LastMessage(payload) + 1]]

\* processWebhookEvent: a branch request whose message lacks '[build]' is
\* not built.
BranchNotBuilt(request) ==
  request.type = "branch" /\ IndexOf(request.message, BuildMarker) = -1

\* GitLab.fetchYamlFile(project, sha, path, cb) begins with
\* this.getApi(project) on its first argument.
FetchYamlFileThrows(project, sha, path) == GetApiThrows(project)

\* GitLab.fetchProboYamlConfig(project, sha, cb) begins with
\* this.fetchYamlFile('.probo.yml', sha, project, ...).
FetchProboYamlConfigThrows(project, sha) ==
  FetchYamlFileThrows(Str(".probo.yml"), sha, project)

\* The answers of the webhook route.
Ack == [code |-> 200, body |-> "ok:true"]
BadHook == [code |-> 400, body |-> "Error processing hook"]

\* A route that answers only once the event's handler has returned.
WebhookResponseAfterHandler(accepted, threw) ==
  IF accepted /\ ~threw THEN Ack ELSE BadHook

\* POST <webhookPath>: the webhook handler answers an event it accepts
\* with 200 {ok:true} and emits it; for a request it does not accept it
\* calls the route's callback, which answers 400.  What the event's handler
\* does has no part in the answer.
WebhookResponse(accepted, threw) == IF accepted THEN Ack ELSE BadHook

\* The answers of api.findProjectByRepo: cb(err, !err && res.body).
NoAnswer == [answered |-> FALSE, error |-> FALSE, project |-> FALSE]

LookupAnswers ==
  { [answered |-> TRUE, error |-> TRUE, project |-> FALSE],
    [answered |-> TRUE, error |-> FALSE, project |-> FALSE],
    [answered |-> TRUE, error |-> FALSE, project |-> TRUE] }

\* A test of the lookup's error only.
LookupFailedOnError(answer) == answer.error

\* processWebhookEvent: if (error || !project).
LookupFailed(answer) == answer.error \/ ~answer.project

\* processWebhookEvent: cb(error || new Error('Project not found')).
LookupError(answer) == IF answer.error THEN "lookup error" ELSE "Project not found"

\* A filter that calls back with an error.
SkipCallbackError == "error"

\* The callback of a filtered event: cb() and cb(null).
SkipCallback == "ok"

\* What the provider holds at the commit for '.probo.yml' (a) and
\* '.probo.yaml' (b): a parseable file, a file that parses to nothing, no
\* file (404), an API error, a malformed file, or a file record without
\* content, which Buffer.from refuses.
NoFiles == [a |-> "none", b |-> "none"]

RepoStates ==
  { [a |-> "error", b |-> "config"],
    [a |-> "notfound", b |-> "config"],
    [a |-> "empty", b |-> "config"],
    [a |-> "notfound", b |-> "notfound"],
    [a |-> "empty", b |-> "empty"],
    [a |-> "config", b |-> "config"],
    [a |-> "malformed", b |-> "config"],
    [a |-> "nocontent", b |-> "config"] }

\* The repository of the webhook intake's specification.
HookRepoStates == {[a |-> "config", b |-> "config"]}

\* The payloads of the config resolution's specification.
ConfigPayloads ==
  {MergeRequestPayload(p, "opened") : p \in ProjectIds}
  \cup {PushPayload("p1", HeadsPrefix \o <<"master">>, <<BuildMarker>>)}

\* What fetchProboYamlConfig has handed to its callback; nothing yet.
NoResult == [called |-> FALSE, error |-> Undefined, config |-> Undefined]

NewEvent(payload, threw) ==
  [payload |-> payload, request |-> NoRequest, pc |-> "received",
   response |-> WebhookResponse(payload.kind # "rejected", threw),
   cb |-> "none", cbError |-> Undefined, lookup |-> NoAnswer, files |-> NoFiles,
   lookups |-> 0, configFetches |-> 0, requestsA |-> 0, requestsB |-> 0,
   resolved |-> NoResult, submits |-> 0, statusPosts |-> 0, project |-> Undefined]

\* The webhook handler does not accept the request: nothing is emitted.
WebhookRejected(max) ==
  /\ ~crashed
  /\ Len(events) < max
  /\ events' = Append(events, [NewEvent(RejectedPayload, FALSE) EXCEPT !.pc = "rejected"])
  /\ UNCHANGED <<queueVars, crashed, submissions, hashBuilds>>

\* processWebhookEvent: the project lookup is issued.
StartLookup(ev, request) ==
  [ev EXCEPT !.request = request, !.pc = "lookup", !.lookups = @ + 1]

\* The webhook handler emits a merge_request event: mergeRequestHandler.
MergeRequestHandler(max, payloads) ==
  /\ ~crashed
  /\ Len(events) < max
  /\ \E payload \in payloads :
       /\ payload.kind = "merge_request"
       /\ LET ev == NewEvent(payload, FALSE)
          IN events' = Append(events,
               IF MergeRequestIgnored(payload)
               THEN [ev EXCEPT !.pc = "skipped", !.cb = SkipCallback]
               ELSE StartLookup(ev, MergeRequestRequest(payload)))
  /\ UNCHANGED <<queueVars, crashed, submissions, hashBuilds>>

\* The webhook handler emits a push event: pushHandler.  An exception of
\* the handler is caught by nobody: the event's processing ends there, and
\* the process dies unless the server contains handler exceptions.
PushHandler(max, payloads) ==
  /\ ~crashed
  /\ Len(events) < max
  /\ \E payload \in payloads :
       /\ payload.kind = "push"
       /\ LET ev == NewEvent(payload, PushHandlerThrows(payload))
          IN IF PushHandlerThrows(payload)
             THEN /\ \E dies \in BOOLEAN : crashed' = dies
                  /\ events' = Append(events, [ev EXCEPT !.pc = "threw"])
             ELSE /\ events' = Append(events, StartLookup(ev, PushRequest(payload)))
                  /\ UNCHANGED crashed
  /\ UNCHANGED <<queueVars, submissions, hashBuilds>>

\* api.findProjectByRepo calls back with an error or without a project:
\* processWebhookEvent calls back with the error.
ProjectNotFound ==
  /\ ~crashed
  /\ \E e \in DOMAIN events, answer \in LookupAnswers :
       /\ events[e].pc = "lookup"
       /\ LookupFailed(answer)
       /\ events' = [events EXCEPT ![e].pc = "failed", ![e].lookup = answer,
                                   ![e].cb = "error", ![e].cbError = LookupError(answer)]
  /\ UNCHANGED <<queueVars, crashed, submissions, hashBuilds>>

\* api.findProjectByRepo calls back with the project: processWebhookEvent
\* filters a branch request, or goes on to processBuild, whose call of
\* fetchProboYamlConfig throws before any file is requested.
ProjectFound(repos) ==
  /\ ~crashed
  /\ \E e \in DOMAIN events, answer \in LookupAnswers :
       /\ events[e].pc = "lookup"
       /\ ~LookupFailed(answer)
       /\ LET ev == [events[e] EXCEPT !.lookup = answer,
                                     !.project = IF answer.project
                                                 THEN events[e].request.slug
                                                 ELSE Undefined]
          IN IF BranchNotBuilt(ev.request)
             THEN /\ events' = [events EXCEPT ![e] =
                       [ev EXCEPT !.pc = "skipped", !.cb = SkipCallback]]
                  /\ UNCHANGED crashed
             ELSE \E files \in repos :
                  IF FetchProboYamlConfigThrows(Project(ev.project), ev.request.sha)
                  THEN /\ events' = [events EXCEPT ![e] =
                            [ev EXCEPT !.files = files, !.configFetches = @ + 1,
                                       !.pc = "threw"]]
                       /\ \E dies \in BOOLEAN : crashed' = dies
                  ELSE /\ events' = [events EXCEPT ![e] =
                            [ev EXCEPT !.files = files, !.configFetches = @ + 1,
                                       !.requestsA = @ + 1, !.pc = "fetchA"]]
                       /\ UNCHANGED crashed
  /\ UNCHANGED <<queueVars, submissions, hashBuilds>>

----------------------------------------------------------------------------
(* Tokens.checkTokens: the credential check of submitBuild.                *)

\* A loop of six probes.
ProbeLimitSix == 5 + 1

\* The probes of one check: while (statusCode != 200 && iteration < 5).
ProbeLimit == 5

\* The answer of a synchronous request: a response with a status code, or
\* an exception when the request fails at the transport level.
Answered(code) == [threw |-> FALSE, statusCode |-> code]
Thrown == [threw |-> TRUE, statusCode |-> 0]

\* What the provider answers to the probes of one check, probe by probe;
\* one answer more than the loop may consume.
ProbeScripts ==
  {[i \in 1..(ProbeLimit + 1) |-> Answered(IF i = k THEN 200 ELSE 401)] :
     k \in 1..(ProbeLimit + 1)}
  \cup {[i \in 1..(ProbeLimit + 1) |-> IF i = k THEN Thrown ELSE Answered(401)] :
          k \in 1..ProbeLimit}
  \cup {[i \in 1..(ProbeLimit + 1) |-> Answered(500)]}

\* A loop that goes on after a 200.
ProbeAgainAfterSuccess(statusCode, iteration) == iteration < ProbeLimit

\* The loop's condition.
ProbeAgain(statusCode, iteration) == statusCode # 200 /\ iteration < ProbeLimit

\* do { iteration++; tokenCheck = request('GET', ...); statusCode = ... }
\* while (...): the number of probes made and the last status code; a
\* probe's exception leaves the loop and checkTokens.
RECURSIVE ProbeLoop(_, _)
ProbeLoop(script, iteration) ==
  LET it == iteration + 1
      tokenCheck == script[it]
  IN IF tokenCheck.threw THEN [probes |-> it, threw |-> TRUE, statusCode |-> 0]
     ELSE IF ProbeAgain(tokenCheck.statusCode, it) THEN ProbeLoop(script, it)
     ELSE [probes |-> it, threw |-> FALSE, statusCode |-> tokenCheck.statusCode]

\* A check that refreshes whatever the probes said.
NeedsRefreshAlways(statusCode) == TRUE

\* if (statusCode != 200)
NeedsRefresh(statusCode) == statusCode # 200

\* A JSON body, by its access_token and refresh_token fields.
NoFields == [access_token |-> Undefined, refresh_token |-> Undefined]

\* The answers of the provider's token endpoint: a new pair, a rejection
\* (getBody throws on a status of 300 and above), a transport failure.
RefreshAnswers ==
  { [kind |-> "ok", body |-> [access_token |-> "tok2", refresh_token |-> "ref2"]],
    [kind |-> "rejected", body |-> NoFields],
    [kind |-> "failure", body |-> NoFields] }

\* The answers of the coordinator's token update: the pair sent is echoed,
\* an error body (status 500, JSON), a JSON body without the token fields,
\* a body that is no JSON, a transport failure.
UpdateAnswers == {"echo", "errorBody", "lacksFields", "notJson", "failure"}

TokenEnvs ==
  [probes : ProbeScripts, refresh : RefreshAnswers, update : UpdateAnswers]

\* The request that saves the new tokens: the headers oid, token and
\* refreshtoken.
UpdateCall(project, responseBody) ==
  [oid |-> project.organizationId, token |-> responseBody.access_token,
   refreshtoken |-> responseBody.refresh_token]

\* JSON.parse(updateTokens.body): the body is read whatever the status.
UpdateBody(answer, call) ==
  IF answer = "echo"
  THEN [access_token |-> call.token, refresh_token |-> call.refreshtoken]
  ELSE NoFields

\* A catch block that returns an empty pair.
RefreshFailedResultEmpty(project) == [token |-> Undefined, refreshToken |-> Undefined]

\* The catch block's result: return project.service_auth.
RefreshFailedResult(project) == project.service_auth

\* checkTokens(project) against the answers env: the calls it makes and
\* what it returns.  The exception of a probe is caught by nobody; every
\* exception from the refresh on is caught, notified with mail.send (an
\* async function, which raises nothing here) and answered with the stored
\* material.
CheckTokens(project, env) ==
  LET loop == ProbeLoop(env.probes, 0)
      base == [threw |-> loop.threw, probes |-> loop.probes,
               trace |-> SubSeq(env.probes, 1, loop.probes),
               probeToken |-> project.service_auth.token,
               refreshes |-> 0, refresh |-> "none", refreshTokenSent |-> Undefined,
               updates |-> <<>>, update |-> "none", alerts |-> 0,
               result |-> project.service_auth]
      refreshed == [base EXCEPT !.refreshes = 1, !.refresh = env.refresh.kind,
                                !.refreshTokenSent = project.service_auth.refreshToken]
      call == UpdateCall(project, env.refresh.body)
      updated == [refreshed EXCEPT !.updates = <<call>>, !.update = env.update]
  IN IF loop.threw THEN base
     ELSE IF ~NeedsRefresh(loop.statusCode) THEN base
     ELSE IF env.refresh.kind # "ok"
     THEN [refreshed EXCEPT !.alerts = 1, !.result = RefreshFailedResult(project)]
     ELSE IF env.update \in {"notJson", "failure"}
     THEN [updated EXCEPT !.alerts = 1, !.result = RefreshFailedResult(project)]
     ELSE LET newTokens == UpdateBody(env.update, call)
          IN [updated EXCEPT !.result = [token |-> newTokens.access_token,
                                        refreshToken |-> newTokens.refresh_token]]

----------------------------------------------------------------------------
(* submitBuild.                                                            *)

Digits == <<"0", "1", "2", "3", "4", "5", "6", "7", "8", "9">>

\* request.pull_request.number + '': the decimal digits of the number.
RECURSIVE NumberToString(_)
NumberToString(n) ==
  IF n < 10 THEN <<Digits[n + 1]>>
  ELSE NumberToString(n \div 10) \o <<Digits[(n % 10) + 1]>>

\* A build that carries no pull request.
SubmittedBuildNoPullRequest(request, config) ==
  [ref |-> request.sha, type |-> request.type, config |-> config,
   branch |-> IF request.type \in {"pull_request", "branch"} THEN request.branch ELSE <<>>,
   pullRequestNumber |-> <<>>]

\* The build submitBuild makes of a request and a config: the branch when
\* the request has one, the pull request when the request has one.
SubmittedBuild(request, config) ==
  [ref |-> request.sha, type |-> request.type, config |-> config,
   branch |-> IF request.type \in {"pull_request", "branch"} THEN request.branch ELSE <<>>,
   pullRequestNumber |-> IF request.type = "pull_request"
                         THEN NumberToString(request.number) ELSE <<>>]

\* An 'opened' merge request whose iid has two digits.
OpenedMergeRequest == [MergeRequestPayload("p1", "opened") EXCEPT !.iid = 12]

\* The requests submitBuild is given: of a merge request, of a push.
SubmitRequests ==
  { MergeRequestRequest(OpenedMergeRequest),
    PushRequest(PushPayload("p1", HeadsPrefix \o <<"master">>, <<BuildMarker>>)) }

\* The configs submitBuild is given.
SubmitConfigs == {"steps1", "steps2"}

\* A submitBuild that leaves the project as it was fetched.
WithServiceAuthKept(project, newTokens) == project

\* project.service_auth = newTokens
WithServiceAuth(project, newTokens) == [project EXCEPT !.service_auth = newTokens]

\* submitBuild(request, project, config, cb) up to the coordinator call:
\* the build is made, the credential check runs to its end within the
\* call, its result replaces project.service_auth and api.submitBuild is
\* issued.  An exception of the check leaves submitBuild before the call.
SubmitBuild(max) ==
  /\ ~crashed
  /\ Len(submissions) < max
  /\ \E request \in SubmitRequests, p \in ProjectIds, config \in SubmitConfigs,
        env \in TokenEnvs :
       LET project == Project(p)
           check == CheckTokens(project, env)
           sub == [request |-> request, given |-> project, config |-> config,
                   check |-> check,
                   build |-> SubmittedBuild(request, config),
                   project |-> IF check.threw THEN project
                               ELSE WithServiceAuth(project, check.result),
                   pc |-> IF check.threw THEN "threw" ELSE "submitting",
                   submits |-> IF check.threw THEN 0 ELSE 1,
                   cb |-> "none"]
       IN submissions' = Append(submissions, sub)
  /\ UNCHANGED <<queueVars, events, crashed, hashBuilds>>

\* The coordinator answers the submission: cb(err) or cb(null, build).
SubmitAnswered ==
  /\ ~crashed
  /\ \E i \in DOMAIN submissions, answer \in {"ok", "error"} :
       /\ submissions[i].pc = "submitting"
       /\ submissions' = [submissions EXCEPT ![i].pc = "done", ![i].cb = answer]
  /\ UNCHANGED <<queueVars, events, crashed, hashBuilds>>

----------------------------------------------------------------------------
(* POST /builds/hash: hashBuildController and handleHashBuild.             *)

\* A controller that answers 200 whatever its callback is given.
HashAnswerAlwaysOk(err) == [code |-> 200, error |-> Undefined]

\* res.send(500, {error: err}) when the callback carries an error,
\* res.json(build) otherwise.
HashAnswer(err) ==
  IF err # Undefined THEN [code |-> 500, error |-> err]
  ELSE [code |-> 200, error |-> Undefined]

\* hashBuildController: the commit lookup is issued with the project and
\* the sha of the request body.
HashBuildController(max) ==
  /\ ~crashed
  /\ Len(hashBuilds) < max
  /\ \E p \in ProjectIds :
       hashBuilds' = Append(hashBuilds,
         [project |-> p, sha |-> "c3", pc |-> "commit", commit |-> "none",
          commitLookups |-> 1, files |-> NoFiles, configFetches |-> 0,
          requestsA |-> 0, resolution |-> "none", callbacks |-> 0,
          responses |-> <<>>, submits |-> 0, statusPosts |-> 0])
  /\ UNCHANGED <<queueVars, events, crashed, submissions>>

\* The provider rejects the commit lookup: getCommit's catch calls back
\* with the error and the controller answers 500.
CommitRejected ==
  /\ ~crashed
  /\ \E h \in DOMAIN hashBuilds :
       /\ hashBuilds[h].pc = "commit"
       /\ hashBuilds' = [hashBuilds EXCEPT
            ![h].pc = "done", ![h].commit = "error", ![h].callbacks = @ + 1,
            ![h].responses = Append(@, HashAnswer("commit error"))]
  /\ UNCHANGED <<queueVars, events, crashed, submissions>>

\* The provider returns the commit: getCommit's then calls back with it
\* and handleHashBuild enters the config resolution, whose exception is
\* raised within the then and so caught by getCommit's catch, which calls
\* back a second time, with the exception: the controller answers 500.
CommitResolved(repos) ==
  /\ ~crashed
  /\ \E h \in DOMAIN hashBuilds, files \in repos :
       /\ hashBuilds[h].pc = "commit"
       /\ LET hb == [hashBuilds[h] EXCEPT !.commit = "ok", !.callbacks = @ + 1,
                                          !.files = files, !.configFetches = @ + 1]
          IN IF FetchProboYamlConfigThrows(Project(hb.project), hb.sha)
             THEN hashBuilds' = [hashBuilds EXCEPT ![h] =
                    [hb EXCEPT !.pc = "done", !.resolution = "threw",
                               !.callbacks = @ + 1,
                               !.responses = Append(@, HashAnswer("TypeError"))]]
             ELSE hashBuilds' = [hashBuilds EXCEPT ![h] =
                    [hb EXCEPT !.pc = "fetchA", !.requestsA = @ + 1]]
  /\ UNCHANGED <<queueVars, events, crashed, submissions>>

----------------------------------------------------------------------------
(* The specifications.                                                     *)

Init ==
  /\ reqs = <<>>
  /\ qTasks = <<>>
  /\ numRunning = 0
  /\ processingScheduled = FALSE
  /\ calls = <<>>
  /\ pending = {}
  /\ startLog = <<>>
  /\ cbLog = <<>>
  /\ events = <<>>
  /\ crashed = FALSE
  /\ submissions = <<>>
  /\ hashBuilds = <<>>

\* The status update endpoints and the queue.
NextStatus ==
  \/ ReceiveStatusUpdate(MaxUpdates, Handlers, Builds, QueueUpdates, {Undefined})
  \/ QueueProcess
  \/ ProviderResolves
  \/ ProviderRejects(TRUE)

SpecStatus == Init /\ [][NextStatus]_vars

\* The status endpoints over every state and over descriptions around the limit.
NextInfo ==
  \/ ReceiveStatusUpdate(MaxInfoUpdates, {"glh1"}, {Build("p1", "c1")}, InfoUpdates,
                         {Undefined})
  \/ QueueProcess
  \/ ProviderResolves
  \/ ProviderRejects(FALSE)

SpecInfo == Init /\ [][NextInfo]_vars

\* The webhook intake.
NextHook ==
  \/ WebhookRejected(MaxEvents)
  \/ MergeRequestHandler(MaxEvents, Payloads)
  \/ PushHandler(MaxEvents, Payloads)
  \/ ProjectNotFound
  \/ ProjectFound(HookRepoStates)

SpecHook == Init /\ [][NextHook]_vars

\* The events that pass the filters, over every state of the repository.
NextConfig ==
  \/ MergeRequestHandler(MaxConfigEvents, ConfigPayloads)
  \/ PushHandler(MaxConfigEvents, ConfigPayloads)
  \/ ProjectNotFound
  \/ ProjectFound(RepoStates)

SpecConfig == Init /\ [][NextConfig]_vars

\* submitBuild over the answers to its credential check.
NextTokens ==
  \/ SubmitBuild(MaxSubmissions)
  \/ SubmitAnswered

SpecTokens == Init /\ [][NextTokens]_vars

\* The two status endpoints: with and without a context in the URL.
NextContext ==
  \/ ReceiveStatusUpdate(MaxContextUpdates, {"glh1"}, {Build("p1", "c1")},
                         ContextUpdates, UrlContexts)
  \/ QueueProcess
  \/ ProviderResolves
  \/ ProviderRejects(FALSE)

SpecContext == Init /\ [][NextContext]_vars

\* The build of a commit hash.
NextHash ==
  \/ HashBuildController(MaxHashBuilds)
  \/ CommitRejected
  \/ CommitResolved(RepoStates)

SpecHash == Init /\ [][NextHash]_vars

\* The whole handler process.
Next == NextStatus \/ NextHook \/ NextConfig

Spec == Init /\ [][Next]_vars

----------------------------------------------------------------------------
(* The status update queue: one task at a time, in order.                  *)

Tasks == DOMAIN reqs

Started(t) == \E i \in DOMAIN startLog : startLog[i] = t

CallbackFired(t) == \E i \in DOMAIN cbLog : cbLog[i].task = t

\* The tasks whose provider call was started and whose completion callback
\* has not fired.
InFlight == {t \in Tasks : Started(t) /\ ~CallbackFired(t)}

\* C1: over all handler instances, projects and commits, at most one
\* status-post task is in flight in the status update queue at any time.
C1_AtMostOneInFlight ==
  /\ Cardinality(InFlight) <= 1
  /\ Cardinality(pending) <= 1

\* C1's case: a task of one handler and project is in flight while a task
\* of another handler and another project waits.
C1_Witness ==
  \E t \in InFlight, u \in Tasks :
    /\ t \in pending
    /\ reqs[u].phase = "queued"
    /\ ~processingScheduled
    /\ reqs[t].handler # reqs[u].handler
    /\ reqs[t].build.project.id # reqs[u].build.project.id

\* C2: tasks are started in the order in which they were enqueued (task t
\* is the t-th enqueued), a task is started only after the callback of the
\* task enqueued before it has fired, and a task whose provider call has not
\* completed keeps every later task from starting.
C2_StartedInOrder ==
  /\ \A i \in DOMAIN startLog : startLog[i] = i
  /\ \A t \in Tasks : (Started(t) /\ t > 1) => CallbackFired(t - 1)
  /\ \A t \in InFlight : \A u \in Tasks : u > t => ~Started(u)

\* C2's case: the second task was started after the first one's callback
\* fired with an error.
C2_Witness ==
  /\ Len(cbLog) >= 1
  /\ cbLog[1].task = 1
  /\ cbLog[1].err.kind = "err"
  /\ Started(2)

\* C3: the caller's callback of a later enqueued update fires only after
\* the caller's callback of every update enqueued before it.
C3_CallbacksInOrder ==
  /\ \A i, j \in DOMAIN cbLog : i < j => cbLog[i].task < cbLog[j].task
  /\ \A t \in Tasks : CallbackFired(t) => \A u \in Tasks : u < t => CallbackFired(u)

\* C3's case: two updates for different projects, both callbacks fired.
C3_Witness ==
  /\ Len(cbLog) = 2
  /\ reqs[cbLog[1].task].build.project.id # reqs[cbLog[2].task].build.project.id

\* The provider rejected task t's status call and postStatus's catch
\* handler has run.
EndedWithError(t) == reqs[t].outcome.kind = "err"

\* C4: after a task ends with an error, the task enqueued behind it is
\* still started (at once, or by the queue's pending process()).
C4_QueueNeverDies ==
  \A t \in Tasks :
    (EndedWithError(t) /\ t + 1 \in Tasks) => (Started(t + 1) \/ processingScheduled)

\* A description that has the shape of a transition conflict.
IsTransitionConflictShaped(description) ==
  \E i \in DOMAIN description : description[i] = "Cannot transition status via"

\* C5: an error of the provider that is no transition conflict is handed,
\* with the status info, to the callback of the caller that enqueued the
\* update, and to no other callback.
C5_ErrorDelivered ==
  /\ \A t \in Tasks :
       (EndedWithError(t) /\ ~IsTransitionConflictShaped(reqs[t].outcome.description))
         => \E i \in DOMAIN cbLog :
              /\ cbLog[i].task = t
              /\ cbLog[i].err = reqs[t].outcome
              /\ cbLog[i].status = reqs[t].statusInfo
  /\ \A i \in DOMAIN cbLog :
       cbLog[i].err.kind = "err" => cbLog[i].err = reqs[cbLog[i].task].outcome

FromRunning(description) ==
  \E i \in DOMAIN description :
    /\ i + 3 <= Len(description)
    /\ description[i] = "Cannot transition status via"
    /\ description[i + 1] \in {":run", ":enqueue"}
    /\ description[i + 2] = "from"
    /\ description[i + 3] = ":running"

----------------------------------------------------------------------------
(* The status info.                                                        *)

\* C7: the state sent to the provider is running for running, pending for
\* pending, success for success, failed for error and failed for failure,
\* whatever was enqueued before.
C7_StateMapping ==
  \A c \in DOMAIN calls :
    LET given == reqs[calls[c].task].input.state
        sent == calls[c].state
    IN /\ calls[c].info.state = sent
       /\ given = "running" => sent = "running"
       /\ given = "pending" => sent = "pending"
       /\ given = "success" => sent = "success"
       /\ given = "error" => sent = "failed"
       /\ given = "failure" => sent = "failed"

\* C7's case: an 'error' update sent as 'failed' after an update of
\* another state.
C7_Witness ==
  \E c \in DOMAIN calls :
    /\ c > 1
    /\ reqs[calls[c].task].input.state = "error"
    /\ calls[c].state = "failed"
    /\ reqs[calls[c - 1].task].input.state # "error"

\* C8: the description sent is the first min(length, 140) characters of the
\* description given: cut to exactly 140 with nothing appended when longer,
\* unchanged otherwise.
C8_DescriptionTruncated ==
  \A c \in DOMAIN calls :
    LET given == reqs[calls[c].task].input.description
        sent == calls[c].info.description
    IN /\ Len(sent) = (IF Len(given) > 140 THEN 140 ELSE Len(given))
       /\ \A i \in 1..Len(sent) : sent[i] = given[i]

\* C8's case: a description of more than 140 characters was sent with 140.
C8_Witness ==
  \E c \in DOMAIN calls :
    /\ Len(reqs[calls[c].task].input.description) = MaxDescLen
    /\ Len(calls[c].info.description) = 140

----------------------------------------------------------------------------
(* The webhook filters.                                                    *)

NothingIssued(ev) ==
  /\ ev.configFetches = 0
  /\ ev.requestsA = 0
  /\ ev.requestsB = 0
  /\ ev.submits = 0
  /\ ev.statusPosts = 0

\* C9: a merge-request event whose state is not 'opened' ends in a skip: no
\* project lookup, no config fetch, no build submission and no status post.
C9_NotOpenedSkipped ==
  \A e \in DOMAIN events :
    (events[e].payload.kind = "merge_request" /\ events[e].payload.state # "opened")
      => /\ events[e].pc = "skipped"
         /\ events[e].lookups = 0
         /\ NothingIssued(events[e])

\* C9's case: a 'merged' and a 'locked' merge request were both skipped.
C9_Witness ==
  \E e, f \in DOMAIN events :
    /\ events[e].payload.state = "merged"
    /\ events[f].payload.state = "locked"
    /\ events[e].pc = "skipped"
    /\ events[f].pc = "skipped"

\* The message holds the characters [build] in a row.
HasMarker(message) ==
  \E i \in 1..Len(message) :
    /\ i + 6 <= Len(message)
    /\ message[i] = "[" /\ message[i + 1] = "b" /\ message[i + 2] = "u"
    /\ message[i + 3] = "i" /\ message[i + 4] = "l" /\ message[i + 5] = "d"
    /\ message[i + 6] = "]"

\* The push carries no commit, or its most recent commit's message lacks
\* the marker.
Unmarked(payload) ==
  /\ payload.kind = "push"
  /\ \/ payload.commits = <<>>
     \/ ~HasMarker(payload.commits[Len(payload.commits)])

\* C10: for a push whose most recent commit message lacks '[build]', and
\* for a push with no commits, no config is fetched and no build submitted.
C10_UnmarkedPushNotBuilt ==
  \A e \in DOMAIN events :
    Unmarked(events[e].payload)
      => /\ NothingIssued(events[e])
         /\ events[e].pc \in {"lookup", "failed", "skipped", "threw"}

\* C10's case: the project of a push was found, the marker is in an older
\* commit only, and the event was skipped; another push had no commits.
C10_Witness ==
  \E e, f \in DOMAIN events :
    /\ events[e].payload.commits = <<BuildMarker, <<"f", "i", "x">>>>
    /\ events[e].project # Undefined
    /\ events[e].pc = "skipped"
    /\ events[f].payload.kind = "push"
    /\ events[f].payload.commits = <<>>

----------------------------------------------------------------------------
(* The webhook intake: empty pushes, skips, acknowledgement, lookups.      *)

\* The message the push handler means to give a push without commits.
NoMessageSentinel == <<"There was no message provided">>

\* C11: a push event with no commit entries does not crash normalization:
\* pushHandler substitutes the sentinel commit message, builds the request
\* and goes on to the project lookup instead of throwing.
C11_EmptyPushNormalized ==
  \A e \in DOMAIN events :
    (events[e].payload.kind = "push" /\ events[e].payload.commits = <<>>)
      => /\ events[e].pc # "threw"
         /\ events[e].lookups = 1
         /\ events[e].request.type = "branch"
         /\ events[e].request.message = NoMessageSentinel

\* The event is a push with commits whose last message lacks the marker.
UnmarkedLast(payload) ==
  /\ payload.kind = "push"
  /\ payload.commits # <<>>
  /\ ~HasMarker(payload.commits[Len(payload.commits)])

\* C12, as claimed: a merge request that is not 'opened' and a push without
\* the '[build]' marker never have their completion callback called with an
\* error.
C12_FilteredNeverErrors ==
  \A e \in DOMAIN events :
    ((events[e].payload.kind = "merge_request" /\ events[e].payload.state # "opened")
       \/ Unmarked(events[e].payload))
      => events[e].cb \in {"none", "ok"}

\* C12, amended: a skip is never reported as an error: an event that is
\* filtered (a merge request that is not 'opened', at once; a push whose
\* last message lacks '[build]', once its project is found) ends with its
\* completion callback called without an error, and a callback with an
\* error comes from a failed project lookup only.
C12_SkipIsNoError ==
  \A e \in DOMAIN events :
    LET ev == events[e]
    IN /\ ev.pc = "skipped" => (ev.cb = "ok" /\ ev.cbError = Undefined)
       /\ (ev.payload.kind = "merge_request" /\ ev.payload.state # "opened")
            => ev.pc = "skipped"
       /\ (UnmarkedLast(ev.payload) /\ ev.lookup.project) => ev.pc = "skipped"
       /\ ev.cb = "error" => (ev.lookup.answered /\ ~ev.lookup.project)

\* C12's case: a merged merge request and a push without the marker whose
\* project was found have both ended with a callback without error.
C12_Witness ==
  \E e, f \in DOMAIN events :
    /\ events[e].payload.kind = "merge_request"
    /\ events[e].payload.state = "merged"
    /\ events[e].cb = "ok"
    /\ UnmarkedLast(events[f].payload)
    /\ events[f].lookup.project
    /\ events[f].cb = "ok"

----------------------------------------------------------------------------
(* Config resolution, as processBuild's events meet it.                    *)

\* Config resolution was invoked for the event.
Resolving(ev) == ev.configFetches = 1

\* The fetch of a path yields nothing: no file (404) or an empty result.
YieldsNothing(answer) == answer \in {"notfound", "empty"}

\* C14: if the fetch of '.probo.yml' fails with an error other than
\* not-found, config resolution hands that error to its callback and
\* '.probo.yaml' is never requested.
C14_UpstreamErrorReturned ==
  \A e \in DOMAIN events :
    (Resolving(events[e]) /\ events[e].files.a = "error")
      => /\ events[e].resolved.called
         /\ events[e].resolved.error = "upstream error"
         /\ events[e].requestsB = 0

\* C15: when '.probo.yml' is not found or empty and '.probo.yaml' holds a
\* parseable file, config resolution hands the parsed content of
\* '.probo.yaml' to its callback with no error.
C15_FallbackConfigReturned ==
  \A e \in DOMAIN events :
    (Resolving(events[e]) /\ YieldsNothing(events[e].files.a)
       /\ events[e].files.b = "config")
      => /\ events[e].resolved.called
         /\ events[e].resolved.error = Undefined
         /\ events[e].resolved.config = "parsed .probo.yaml"
         /\ events[e].requestsB = 1

\* C16: when both paths yield nothing, config resolution fails with the
\* error 'No config file was found.'
C16_NotFoundError ==
  \A e \in DOMAIN events :
    (Resolving(events[e]) /\ YieldsNothing(events[e].files.a)
       /\ YieldsNothing(events[e].files.b))
      => /\ events[e].resolved.called
         /\ events[e].resolved.error = "No config file was found."

\* C17: when '.probo.yml' holds a parseable config, exactly one file is
\* fetched: '.probo.yaml' is never requested and the result is the config
\* of '.probo.yml'.
C17_SingleFetch ==
  \A e \in DOMAIN events :
    (Resolving(events[e]) /\ events[e].files.a = "config")
      => /\ events[e].requestsA = 1
         /\ events[e].requestsB = 0
         /\ events[e].resolved.called
         /\ events[e].resolved.config = "parsed .probo.yml"

\* C18: when the file at '.probo.yml' is malformed, config resolution fails
\* with the message 'Failed to parse .probo.yml: ' and the parser's message.
C18_ParseErrorMessage ==
  \A e \in DOMAIN events :
    (Resolving(events[e]) /\ events[e].files.a = "malformed")
      => /\ events[e].resolved.called
         /\ events[e].resolved.error = "Failed to parse .probo.yml: parser message"

\* Config resolution cannot succeed on this repository.
ConfigFails(files) ==
  \/ files.a \in {"error", "malformed", "nocontent"}
  \/ YieldsNothing(files.a) /\ files.b # "config"

\* C19: when config resolution fails for a webhook event, no build is
\* submitted and exactly one status update of state 'error' and context
\* 'ProboCI/env' for the event's sha and project goes to the status update
\* queue.
C19_FailureBecomesStatus ==
  \A e \in DOMAIN events :
    (Resolving(events[e]) /\ ConfigFails(events[e].files) /\ events[e].pc # "fetchA")
      => /\ events[e].submits = 0
         /\ events[e].statusPosts = 1
         /\ Cardinality({t \in DOMAIN reqs :
                           /\ reqs[t].update.state = "error"
                           /\ reqs[t].update.context = "ProboCI/env"
                           /\ reqs[t].build.ref = events[e].request.sha
                           /\ reqs[t].build.project.id = events[e].project}) = 1

----------------------------------------------------------------------------
(* The credential check.                                                   *)

\* Probe i of the check returned HTTP 200.
Returned200(check, i) == ~check.trace[i].threw /\ check.trace[i].statusCode = 200

\* The check's probe loop ran to its end and no probe returned 200.
AllProbesFailed(check) ==
  /\ ~check.threw
  /\ \A i \in 1..check.probes : ~Returned200(check, i)

C22_SuccessNoRefresh ==
  \A s \in DOMAIN submissions :
    LET check == submissions[s].check
    IN /\ (\E i \in 1..check.probes : Returned200(check, i))
            => /\ check.refreshes = 0
               /\ check.updates = <<>>
               /\ check.alerts = 0
               /\ check.result = submissions[s].given.service_auth
       /\ check.refreshes >= 1 => (check.probes = 5 /\ AllProbesFailed(check))

\* C22's case: the third probe returned 200 and the build is submitted with
\* the stored auth material.
C22_Witness ==
  \E s \in DOMAIN submissions :
    /\ submissions[s].check.probes = 3
    /\ Returned200(submissions[s].check, 3)
    /\ submissions[s].submits = 1
    /\ submissions[s].project.service_auth = submissions[s].given.service_auth

\* C23: when no probe succeeds and the refresh succeeds, the pair obtained
\* from the refresh is sent to the coordinator's token update and is the
\* auth material that checkTokens returns.
C23_RefreshedPairReturned ==
  \A s \in DOMAIN submissions :
    LET check == submissions[s].check
    IN (AllProbesFailed(check) /\ check.refresh = "ok")
         => /\ Len(check.updates) = 1
            /\ check.updates[1].token = "tok2"
            /\ check.updates[1].refreshtoken = "ref2"
            /\ check.result = [token |-> "tok2", refreshToken |-> "ref2"]

C25_AlwaysSubmits ==
  \A s \in DOMAIN submissions :
    /\ submissions[s].submits = 1
    /\ submissions[s].pc # "threw"

----------------------------------------------------------------------------
(* The status endpoints' responses.                                        *)

\* The provider call of task t has settled: it resolved, or it was
\* rejected and postStatus's catch handler has run.
Settled(t) == reqs[t].phase \in {"completed", "stuck"}

\* The dispatch of task t succeeded or met a conflict that postStatus
\* suppresses.
DispatchedOrSuppressed(t) ==
  \/ reqs[t].outcome.kind = "ok"
  \/ /\ reqs[t].outcome.kind = "err"
     /\ reqs[t].outcome.hasDescription
     /\ IsTransitionConflict(reqs[t].outcome.description)

\* C26: a status update request whose dispatch has settled has received
\* exactly one response: the posted status info with 200 when the dispatch
\* succeeded or met a suppressed conflict, 500 with the error when it failed.
C26_ExactlyOneResponse ==
  \A t \in Tasks :
    Settled(t)
      => /\ reqs[t].response.sent
         /\ Cardinality({i \in DOMAIN cbLog : cbLog[i].task = t}) = 1
         /\ DispatchedOrSuppressed(t) => reqs[t].response.code = 200
         /\ ~DispatchedOrSuppressed(t)
              => /\ reqs[t].response.code = 500
                 /\ reqs[t].response.error = reqs[t].outcome

\* The context an endpoint is to use for request t.
ExpectedContext(t) ==
  IF reqs[t].urlContext # Undefined THEN reqs[t].urlContext ELSE reqs[t].input.context

\* C27: with a context in the URL (/builds/:bid/status/:context) that
\* context replaces the body's in the dispatched status and in the
\* response; without one (/update) the body's context is used unchanged.
C27_UrlContextWins ==
  /\ \A i \in DOMAIN calls : calls[i].info.context = ExpectedContext(calls[i].task)
  /\ \A i \in DOMAIN cbLog : cbLog[i].status.context = ExpectedContext(cbLog[i].task)
  /\ \A t \in Tasks : reqs[t].statusInfo.context = ExpectedContext(t)

\* C27's case: a request with a context in its URL that differs from its
\* body's was dispatched and answered, and one without was too.
C27_Witness ==
  \E i, j \in DOMAIN cbLog :
    /\ reqs[cbLog[i].task].urlContext = "ci/url"
    /\ reqs[cbLog[i].task].input.context = "ci/env"
    /\ cbLog[i].status.context = "ci/url"
    /\ reqs[cbLog[i].task].response.sent
    /\ reqs[cbLog[j].task].urlContext = Undefined
    /\ cbLog[j].status.context = reqs[cbLog[j].task].input.context

----------------------------------------------------------------------------
(* From the event to the build.                                            *)

\* The event's processing has come to its end.
Ended(ev) == ev.pc \notin {"received", "lookup", "fetchA", "fetchB"}

\* The event passed the filters, its project was found and the repository
\* holds a config that the resolution is to return.
Buildable(ev) ==
  /\ ev.lookup.answered
  /\ ev.lookup.project
  /\ ~ev.lookup.error
  /\ ~BranchNotBuilt(ev.request)
  /\ ev.files # NoFiles
  /\ ~ConfigFails(ev.files)

\* C28: every event that passes the filters, finds its project and has a
\* resolvable config leads to exactly one submit-build call; no build is
\* lost or doubled.
C28_OneSubmissionPerEvent ==
  \A e \in DOMAIN events :
    /\ events[e].submits <= 1
    /\ (Ended(events[e]) /\ Buildable(events[e])) => events[e].submits = 1

----------------------------------------------------------------------------
(* One provider call per status update.                                    *)

\* The provider status calls made for task t.
CallsOf(t) == {i \in DOMAIN calls : calls[i].task = t}

\* The places task t takes among the waiting tasks.
WaitingPlaces(t) == {i \in DOMAIN qTasks : qTasks[i] = t}

----------------------------------------------------------------------------
(* The project sent to the coordinator.                                    *)

\* C32: the fetched project is changed in its service_auth field only,
\* which is overwritten with what the credential check returned before the
\* build is submitted; the project sent to the coordinator carries exactly
\* that material and every other field as fetched.
C32_OnlyServiceAuthChanges ==
  \A s \in DOMAIN submissions :
    LET sub == submissions[s]
    IN /\ [sub.project EXCEPT !.service_auth = sub.given.service_auth] = sub.given
       /\ sub.submits = 1 => sub.project.service_auth = sub.check.result
       /\ sub.submits = 0 => sub.project = sub.given

\* C32's case: the credential check returned the refreshed pair and the
\* build was submitted with a project that carries it.
C32_Witness ==
  \E s \in DOMAIN submissions :
    /\ submissions[s].submits = 1
    /\ submissions[s].check.result = [token |-> "tok2", refreshToken |-> "ref2"]
    /\ submissions[s].project.service_auth # submissions[s].given.service_auth
    /\ submissions[s].project.organizationId = submissions[s].given.organizationId

----------------------------------------------------------------------------
(* An update with an unknown state.                                        *)

KnownStates == {"running", "pending", "success", "error", "failure"}

----------------------------------------------------------------------------
(* The calls of the file fetcher.                                          *)

\* C34: config resolution requests '.probo.yml' first, at the requested sha
\* and against the given project: the file fetcher receives the project,
\* the sha and the path in the roles it expects, so that its first request
\* is issued.
C34_FetcherArgumentRoles ==
  \A e \in DOMAIN events :
    Resolving(events[e])
      => /\ ~FetchYamlFileThrows(Str(".probo.yml"), events[e].request.sha,
                                 Project(events[e].project))
         /\ events[e].requestsA = 1
         /\ events[e].pc # "threw"

\* The file at '.probo.yml' cannot be decoded or parsed.
Unparseable(answer) == answer \in {"malformed", "nocontent"}

\* C35: a failure to decode or parse the file at '.probo.yml', a file
\* record without content included, is returned at once as a 'Failed to
\* parse' error; '.probo.yaml' is not requested.
C35_ParseFailureIsFinal ==
  \A e \in DOMAIN events :
    (Resolving(events[e]) /\ Unparseable(events[e].files.a))
      => /\ events[e].requestsB = 0
         /\ events[e].resolved.called
         /\ events[e].resolved.config = Undefined
         /\ events[e].resolved.error # Undefined

\* C36: whatever the two fetches answer, fetchProboYamlConfig calls its
\* completion callback exactly once.
C36_CallbackExactlyOnce ==
  \A e \in DOMAIN events :
    (Resolving(events[e]) /\ Ended(events[e])) => events[e].resolved.called

----------------------------------------------------------------------------
(* The release of the queue's slot.                                        *)

\* The callbacks fired for task t.
CallbacksOf(t) == {i \in DOMAIN cbLog : cbLog[i].task = t}

\* C37: however the provider rejects the status call, an error without a
\* description included, postStatus calls the task's completion callback
\* exactly once, so that the queue's slot is released once no provider call
\* is outstanding.
C37_SlotAlwaysReleased ==
  /\ \A t \in Tasks :
       /\ Cardinality(CallbacksOf(t)) <= 1
       /\ reqs[t].outcome.kind # "none" => Cardinality(CallbacksOf(t)) = 1
  /\ pending = {} => numRunning = 0

\* C38: what checkTokens returns is the project's stored pair or a pair
\* whose token and refreshToken are both present.
C38_NoMissingToken ==
  \A s \in DOMAIN submissions :
    LET check == submissions[s].check
    IN \/ check.result = submissions[s].given.service_auth
       \/ /\ check.result.token # Undefined
          /\ check.result.refreshToken # Undefined

----------------------------------------------------------------------------
(* The build of a commit hash.                                             *)

\* The request was answered once, with 500 and an error.
AnsweredWithError(hb) ==
  /\ Len(hb.responses) = 1
  /\ hb.responses[1].code = 500
  /\ hb.responses[1].error # Undefined

\* C39: on POST /builds/hash a build is submitted only if the commit lookup
\* and the config resolution both succeeded; if either fails the request is
\* answered with 500 and the error, no build is submitted and no status
\* update is enqueued, and a failed commit lookup prevents the config fetch.
C39_HashBuildFailures ==
  \A h \in DOMAIN hashBuilds :
    LET hb == hashBuilds[h]
    IN /\ hb.submits >= 1 => (hb.commit = "ok" /\ hb.resolution = "config")
       /\ hb.commit = "error"
            => /\ AnsweredWithError(hb)
               /\ hb.configFetches = 0
               /\ hb.requestsA = 0
               /\ hb.submits = 0
               /\ hb.statusPosts = 0
       /\ hb.resolution = "threw"
            => /\ AnsweredWithError(hb)
               /\ hb.submits = 0
               /\ hb.statusPosts = 0
       /\ hb.configFetches >= 1 => hb.commit = "ok"

\* C39's case: one request whose commit lookup failed and one whose config
\* resolution failed on a repository without a config, both answered 500.
C39_Witness ==
  \E g, h \in DOMAIN hashBuilds :
    /\ hashBuilds[g].commit = "error"
    /\ hashBuilds[g].responses = <<[code |-> 500, error |-> "commit error"]>>
    /\ hashBuilds[h].commit = "ok"
    /\ hashBuilds[h].files = [a |-> "notfound", b |-> "notfound"]
    /\ hashBuilds[h].resolution = "threw"
    /\ AnsweredWithError(hashBuilds[h])

====
